---- MODULE Spec2Model ----
(***************************************************************************)
(* Wheels of Fortune - interactive dandelion bloom (src/sketch.js).        *)
(*                                                                         *)
(* State: the global arrays wheels, dandelionParticles, blownAwayHistory,  *)
(* the canvas size, and what the last frame rendered.  One action per p5   *)
(* callback: draw, mousePressed, keyPressed, windowResized.                *)
(*                                                                         *)
(* Number representation.  Wheel geometry and the mouse are whole pixels.  *)
(* Particle coordinates, velocity and wind are hundredths of a pixel,      *)
(* angles are whole degrees (cos/sin come from a table scaled by 1000).    *)
(* The fade of the return animation is kept exact: a particle carries      *)
(* retSteps, the number of return updates applied so far, and its opacity  *)
(* is  alpha * (9/10)^retSteps.  A drifting particle has retSteps = 0, so  *)
(* its alpha field is the opacity itself.  retSteps is counted up to       *)
(* MaxRetSteps and stays there: the opacity is positive for every          *)
(* retSteps, and in double precision it stops changing after finitely      *)
(* many steps at a positive value.                                         *)
(***************************************************************************)
EXTENDS Integers, Sequences, FiniteSets, TLC

VARIABLES
    canvas,              \* [width, height] of the p5 canvas, pixels
    wheels,              \* sequence of Wheel records, index = z-order
    dandelionParticles,  \* sequence of DandelionParticle records
    blownAwayHistory,    \* sequence of batches; a batch is a sequence of wheel indices
    displayed,           \* particles handed to display() in the last frame, as <<alpha, retSteps>>
    event,               \* the callback that produced this state, with mouseX, mouseY,
                         \* keyCode, for a click the wheel it triggered (0: none) and the
                         \* flags and history it found, for a key press the number of
                         \* wheels it restored
    nTicks,              \* frames drawn since the artwork was initialised; past
                         \* LongTicks only its parity is kept
    nDispersals,         \* clicks that dispersed wheels since then
    nRestores,           \* spacebar presses that restored a batch since then
    nResizes             \* resizes so far

vars == <<canvas, wheels, dandelionParticles, blownAwayHistory, displayed, event,
          nTicks, nDispersals, nRestores, nResizes>>

(* Bounds of the exploration. *)
MaxTicks == 2
MaxDispersals == 2
MaxRestores == 2
MaxResizes == 1
LongTicks == 130
MaxRetSteps == 130
RestoreBy == 4

(* ---------------------------------------------------------------------- *)
(* Program constants                                                       *)
(* ---------------------------------------------------------------------- *)
colorPalettes ==
  << <<"#45206A", "#FFD700", "#FF8C00", "#B0E0E6", "#8A2BE2">>,
     <<"#D90429", "#F4D35E", "#F7B267", "#0A796F", "#2E4057">>,
     <<"#A34A2A", "#F2AF29", "#E0A890", "#3E8914", "#D4327C">>,
     <<"#004C6D", "#7FC2BF", "#FFC94F", "#D83A56", "#5C88BF">>,
     <<"#C11F68", "#F9E795", "#F5EEF8", "#2ECC71", "#8E44AD">>,
     <<"#006D77", "#FF8C00", "#E29578", "#83C5BE", "#D64045">> >>

numWheels == 25
targetInnerAlpha == 255
fadeSpeed == 5
spokeCount == 24
dotCount == 40
initialAlpha == 255
alphaStep == 2
SPACE == 32

(* ---------------------------------------------------------------------- *)
(* Arithmetic helpers                                                      *)
(* ---------------------------------------------------------------------- *)
min(a, b) == IF a < b THEN a ELSE b

Sq(a) == a * a

(* a / d rounded to the nearest integer, d > 0 *)
RoundDiv(a, d) == (2 * a + d) \div (2 * d)

(* 1000 * cos of a whole number of degrees, degrees 0..359 at index 1..360 *)
CosTable ==
  <<
      1000,  1000,   999,   999,   998,   996,   995,   993,   990,   988,   985,   982,
       978,   974,   970,   966,   961,   956,   951,   946,   940,   934,   927,   921,
       914,   906,   899,   891,   883,   875,   866,   857,   848,   839,   829,   819,
       809,   799,   788,   777,   766,   755,   743,   731,   719,   707,   695,   682,
       669,   656,   643,   629,   616,   602,   588,   574,   559,   545,   530,   515,
       500,   485,   469,   454,   438,   423,   407,   391,   375,   358,   342,   326,
       309,   292,   276,   259,   242,   225,   208,   191,   174,   156,   139,   122,
       105,    87,    70,    52,    35,    17,     0,   -17,   -35,   -52,   -70,   -87,
      -105,  -122,  -139,  -156,  -174,  -191,  -208,  -225,  -242,  -259,  -276,  -292,
      -309,  -326,  -342,  -358,  -375,  -391,  -407,  -423,  -438,  -454,  -469,  -485,
      -500,  -515,  -530,  -545,  -559,  -574,  -588,  -602,  -616,  -629,  -643,  -656,
      -669,  -682,  -695,  -707,  -719,  -731,  -743,  -755,  -766,  -777,  -788,  -799,
      -809,  -819,  -829,  -839,  -848,  -857,  -866,  -875,  -883,  -891,  -899,  -906,
      -914,  -921,  -927,  -934,  -940,  -946,  -951,  -956,  -961,  -966,  -970,  -974,
      -978,  -982,  -985,  -988,  -990,  -993,  -995,  -996,  -998,  -999,  -999, -1000,
     -1000, -1000,  -999,  -999,  -998,  -996,  -995,  -993,  -990,  -988,  -985,  -982,
      -978,  -974,  -970,  -966,  -961,  -956,  -951,  -946,  -940,  -934,  -927,  -921,
      -914,  -906,  -899,  -891,  -883,  -875,  -866,  -857,  -848,  -839,  -829,  -819,
      -809,  -799,  -788,  -777,  -766,  -755,  -743,  -731,  -719,  -707,  -695,  -682,
      -669,  -656,  -643,  -629,  -616,  -602,  -588,  -574,  -559,  -545,  -530,  -515,
      -500,  -485,  -469,  -454,  -438,  -423,  -407,  -391,  -375,  -358,  -342,  -326,
      -309,  -292,  -276,  -259,  -242,  -225,  -208,  -191,  -174,  -156,  -139,  -122,
      -105,   -87,   -70,   -52,   -35,   -17,     0,    17,    35,    52,    70,    87,
       105,   122,   139,   156,   174,   191,   208,   225,   242,   259,   276,   292,
       309,   326,   342,   358,   375,   391,   407,   423,   438,   454,   469,   485,
       500,   515,   530,   545,   559,   574,   588,   602,   616,   629,   643,   656,
       669,   682,   695,   707,   719,   731,   743,   755,   766,   777,   788,   799,
       809,   819,   829,   839,   848,   857,   866,   875,   883,   891,   899,   906,
       914,   921,   927,   934,   940,   946,   951,   956,   961,   966,   970,   974,
       978,   982,   985,   988,   990,   993,   995,   996,   998,   999,   999,  1000
  >>

cos(deg) == CosTable[(deg % 360) + 1]

sin(deg) == cos(deg + 270)

(* squared Euclidean distance; dist(a, b) < c is written DistSq < c * c *)
DistSq(x1, y1, x2, y2) == Sq(x1 - x2) + Sq(y1 - y2)

Abs(a) == IF a < 0 THEN -a ELSE a

(* dist(x1, y1, x2, y2) < c for c >= 0, the squares taken only when they are small *)
DistLess(x1, y1, x2, y2, c) ==
  /\ Abs(x1 - x2) < c
  /\ Abs(y1 - y2) < c
  /\ DistSq(x1, y1, x2, y2) < Sq(c)

(* dist(x1, y1, x2, y2) > c for c >= 0 *)
DistMore(x1, y1, x2, y2, c) ==
  \/ Abs(x1 - x2) > c
  \/ Abs(y1 - y2) > c
  \/ DistSq(x1, y1, x2, y2) > Sq(c)

(* lerp(start, stop, 1/den) *)
lerp(start, stop, den) == start + RoundDiv(stop - start, den)

(* ---------------------------------------------------------------------- *)
(* Wheel                                                                   *)
(* ---------------------------------------------------------------------- *)
(* variant: a wheel is created fully faded in *)
WheelOpaque(x, y, radius, palette) ==
  [x |-> x, y |-> y, radius |-> radius, colors |-> palette,
   isBlownAway |-> FALSE, innerAlpha |-> targetInnerAlpha]

Wheel(x, y, radius, palette) ==
  [x |-> x, y |-> y, radius |-> radius, colors |-> palette,
   isBlownAway |-> FALSE, innerAlpha |-> 0]

(* colors[0] of a wheel; colors holds the index of its palette *)
BaseColor(w) == colorPalettes[w.colors][1]

(* variant: a dispersed wheel is not held at 0 but fades in slowly *)
updateAlphaDispersedToo(w) ==
  IF w.isBlownAway
    THEN [w EXCEPT !.innerAlpha = min(w.innerAlpha + 1, targetInnerAlpha)]
    ELSE IF w.innerAlpha < targetInnerAlpha
           THEN [w EXCEPT !.innerAlpha = min(w.innerAlpha + fadeSpeed, targetInnerAlpha)]
           ELSE w

(* variant: the fade level is not stopped at its target *)
updateAlphaNoCap(w) ==
  IF w.isBlownAway
    THEN [w EXCEPT !.innerAlpha = 0]
    ELSE [w EXCEPT !.innerAlpha = w.innerAlpha + fadeSpeed]

updateAlpha(w) ==
  IF w.isBlownAway
    THEN [w EXCEPT !.innerAlpha = 0]
    ELSE IF w.innerAlpha < targetInnerAlpha
           THEN [w EXCEPT !.innerAlpha = min(w.innerAlpha + fadeSpeed, targetInnerAlpha)]
           ELSE w

(* variant: the diameter taken for the radius *)
containsDiameter(w, px, py) == DistSq(px, py, w.x, w.y) < Sq(2 * w.radius)

(* variant: the rim belongs to the wheel *)
containsOrOnRim(w, px, py) == DistSq(px, py, w.x, w.y) <= Sq(w.radius)

contains(w, px, py) == DistSq(px, py, w.x, w.y) < Sq(w.radius)

(* what a click finds: every wheel's isBlownAway and the history *)
Flags(ws) == [k \in 1..Len(ws) |-> ws[k].isBlownAway]

NoSnapshot == [flags |-> <<>>, history |-> <<>>]

(* ---------------------------------------------------------------------- *)
(* initializeArtwork: the placement loop                                   *)
(* ---------------------------------------------------------------------- *)
(* One pass of the while loop accepts candidate c next to the wheels ws   *)
(* already placed.  d < k is compared on squares, fractions cleared.      *)
AcceptsCandidate(cv, c, ws) ==
  LET n == Len(ws)
      d2(o) == DistSq(c.x, c.y, o.x, o.y)
      combinedRadius(o) == c.radius + o.radius
      overlapThreshold4(o) == 4 * min(c.radius, o.radius)   \* 10 * (min * 0.4)
      isOverlappingTooMuch ==
        \E i \in 1..n :
          100 * d2(ws[i]) < Sq(10 * combinedRadius(ws[i]) - overlapThreshold4(ws[i]))
      hasNearbyWheel ==
        \/ n = 0
        \/ \E i \in 1..n : 4 * d2(ws[i]) < 9 * Sq(combinedRadius(ws[i]))
  IN /\ 100 * c.radius >= 4 * cv.width          \* random(minRadius, maxRadius)
     /\ 100 * c.radius < 12 * cv.width
     /\ c.x >= c.radius /\ c.x < cv.width - c.radius
     /\ c.y >= c.radius /\ c.y < cv.height - c.radius
     /\ ~isOverlappingTooMuch
     /\ hasNearbyWheel
     /\ c.colors \in 1..Len(colorPalettes)
     /\ (n > 0 => c.colors # ws[n].colors)       \* never the previous wheel's palette

PlacedByLoop(cv, ws) ==
  /\ Len(ws) <= numWheels
  /\ \A i \in 1..Len(ws) : AcceptsCandidate(cv, ws[i], SubSeq(ws, 1, i - 1))

(* The window sizes and random placements explored. *)
CandidateLayouts ==
  { [canvas |-> [width |-> 1920, height |-> 1080],
     wheels |-> << Wheel(600, 500, 200, 1), Wheel(940, 500, 200, 2),
                   Wheel(1400, 500, 200, 1) >>],
    [canvas |-> [width |-> 1000, height |-> 800],
     wheels |-> << Wheel(400, 400, 110, 3) >>] }

Layouts == { l \in CandidateLayouts : PlacedByLoop(l.canvas, l.wheels) }

(* ---------------------------------------------------------------------- *)
(* DandelionParticle                                                       *)
(* ---------------------------------------------------------------------- *)
(* The random draws of the constructor: velocity and wind in hundredths   *)
(* of a pixel per frame, rotation speed in degrees per frame.  Every      *)
(* particle created by one click takes the same draw.                      *)
Gusts ==
  { [velX |-> -100, velY |-> -173, windX |-> -10, windY |-> 10, rotationSpeed |-> 0],
    [velX |-> -141, velY |-> -141, windX |-> -15, windY |-> 15, rotationSpeed |-> 2] }

(* src, born and j identify the particle (the wheel it was made from, the *)
(* click that made it, its place on the ring); the program keeps no such  *)
(* fields.  size is the size passed to the constructor, in hundredths of  *)
(* a pixel; the current size is size * 0.99^driftSteps, times             *)
(* 0.92^retSteps for a spoke.                                              *)
DandelionParticle(x, y, type, color, size, targetX, targetY, initialAngle, g, src, born, j) ==
  [x |-> x, y |-> y, type |-> type, color |-> color, size |-> size,
   alpha |-> initialAlpha,
   originalX |-> x, originalY |-> y,
   targetX |-> targetX, targetY |-> targetY,
   velX |-> g.velX, velY |-> g.velY,
   rotation |-> initialAngle, rotationSpeed |-> g.rotationSpeed,
   windX |-> g.windX, windY |-> g.windY,
   isReturning |-> FALSE,
   driftSteps |-> 0, retSteps |-> 0,
   src |-> src, born |-> born, j |-> j]

(* variant: the drift step does not fade the particle *)
updateNoFade(p) ==
  IF p.isReturning
    THEN [p EXCEPT !.x = lerp(p.x, p.targetX, 20),
                   !.y = lerp(p.y, p.targetY, 20),
                   !.retSteps = min(@ + 1, MaxRetSteps)]
    ELSE [p EXCEPT !.x = @ + p.velX,
                   !.y = @ + p.velY,
                   !.velX = @ + p.windX,
                   !.velY = @ + p.windY,
                   !.rotation = @ + p.rotationSpeed,
                   !.driftSteps = @ + 1]

(* variant: a returning particle drifts again after one step *)
updateForgetsReturn(p) ==
  IF p.isReturning
    THEN [p EXCEPT !.x = lerp(p.x, p.targetX, 20),
                   !.y = lerp(p.y, p.targetY, 20),
                   !.retSteps = min(@ + 1, MaxRetSteps),
                   !.isReturning = FALSE]
    ELSE [p EXCEPT !.x = @ + p.velX,
                   !.y = @ + p.velY,
                   !.velX = @ + p.windX,
                   !.velY = @ + p.windY,
                   !.rotation = @ + p.rotationSpeed,
                   !.alpha = @ - alphaStep,
                   !.driftSteps = @ + 1]

update(p) ==
  IF p.isReturning
    THEN [p EXCEPT !.x = lerp(p.x, p.targetX, 20),
                   !.y = lerp(p.y, p.targetY, 20),
                   !.retSteps = min(@ + 1, MaxRetSteps)]
    ELSE [p EXCEPT !.x = @ + p.velX,
                   !.y = @ + p.velY,
                   !.velX = @ + p.windX,
                   !.velY = @ + p.windY,
                   !.rotation = @ + p.rotationSpeed,
                   !.alpha = @ - alphaStep,
                   !.driftSteps = @ + 1]

(* variant: the test is for equality *)
AlphaFadedAtZero(p) == p.alpha = 0

(* p.alpha <= 0: the factor (9/10)^retSteps is positive *)
AlphaFaded(p) == p.alpha <= 0

(* dist(p.x, p.y, p.targetX, p.targetY) < 1 *)
AtTarget(p) == DistLess(p.x, p.y, p.targetX, p.targetY, 100)

(* ---------------------------------------------------------------------- *)
(* draw                                                                    *)
(* ---------------------------------------------------------------------- *)
(* variant: the element below index i is removed *)
SpliceBelow(ps, i) ==
  IF i <= 1 THEN ps ELSE SubSeq(ps, 1, i - 2) \o SubSeq(ps, i, Len(ps))

(* dandelionParticles.splice(i, 1) *)
Splice(ps, i) ==
  IF i > Len(ps) THEN ps ELSE SubSeq(ps, 1, i - 1) \o SubSeq(ps, i + 1, Len(ps))

(* One pass of the loop body at index i.  st.particles is the array,     *)
(* st.shown collects what display() was given.  p is the particle after   *)
(* p.update(), computed once.                                              *)
LoopBody(st, i) ==
  CHOOSE r \in
    { LET a == [st.particles EXCEPT ![i] = p]
          b == IF AlphaFaded(p) /\ ~p.isReturning THEN Splice(a, i) ELSE a
          c == IF p.isReturning /\ AtTarget(p) /\ AlphaFaded(p) THEN Splice(b, i) ELSE b
      IN [particles |-> c, shown |-> st.shown \cup {<<p.alpha, p.retSteps>>}] :
      p \in { update(st.particles[i]) } } : TRUE

(* variant: the passes run in ascending order, up to the current length *)
RECURSIVE ParticleLoopAscending(_, _, _)
ParticleLoopAscending(st, hi, lo) ==
  IF lo > hi \/ lo > Len(st.particles) THEN st
  ELSE CHOOSE r \in { ParticleLoopAscending(next, hi, lo + 1) :
                        next \in { LoopBody(st, lo) } } : TRUE

(* for (i = hi; i >= lo; i--): the passes run in descending order.  The   *)
(* range is split in two and the state after the upper half is computed    *)
(* once, as the element of a one-element set, before the lower half        *)
(* starts, only to keep the evaluation shallow.                            *)
RECURSIVE ParticleLoop(_, _, _)
ParticleLoop(st, hi, lo) ==
  IF hi < lo THEN st
  ELSE IF hi = lo THEN LoopBody(st, hi)
  ELSE LET mid == (hi + lo) \div 2
       IN CHOOSE r \in { ParticleLoop(upper, mid, lo) :
                           upper \in { ParticleLoop(st, hi, mid + 1) } } : TRUE

draw ==
  \E r \in { ParticleLoop([particles |-> dandelionParticles, shown |-> {}],
                          Len(dandelionParticles), 1) } :
     /\ wheels' = [i \in 1..Len(wheels) |-> updateAlpha(wheels[i])]
     /\ dandelionParticles' = r.particles
     /\ displayed' = r.shown
     /\ event' = [op |-> "draw", mouseX |-> 0, mouseY |-> 0, keyCode |-> 0, hit |-> 0,
                  restored |-> 0, before |-> NoSnapshot]
     /\ nTicks' = IF nTicks < LongTicks THEN nTicks + 1 ELSE LongTicks - 1
     /\ UNCHANGED <<canvas, blownAwayHistory, nDispersals, nRestores, nResizes>>

(* ---------------------------------------------------------------------- *)
(* mousePressed                                                            *)
(* ---------------------------------------------------------------------- *)
(* A point of a ring of wheel w, in hundredths of a pixel: pct is the     *)
(* ring's radius as a percentage of the wheel's.                           *)
RingX(w, pct, deg) == 100 * w.x + RoundDiv(w.radius * pct * cos(deg), 1000)

RingY(w, pct, deg) == 100 * w.y + RoundDiv(w.radius * pct * sin(deg), 1000)

(* map(j, 0, count, 0, TWO_PI) in degrees *)
RingAngle(j, count) == (360 * j) \div count

spokeParticles(w, k, g, born) ==
  [n \in 1..spokeCount |->
     LET angle == RingAngle(n - 1, spokeCount)
         startX == RingX(w, 80, angle)
         startY == RingY(w, 80, angle)
     IN DandelionParticle(startX, startY, "spoke", colorPalettes[w.colors][4],
                          15 * w.radius, startX, startY, angle, g, k, born, n - 1)]

dotParticles(w, k, g, born) ==
  [n \in 1..dotCount |->
     LET angle == RingAngle(n - 1, dotCount)
         dx == RingX(w, 90, angle)
         dy == RingY(w, 90, angle)
     IN DandelionParticle(dx, dy, "outerDot", colorPalettes[w.colors][2],
                          8 * w.radius, dx, dy, 0, g, k, born, n - 1)]

(* variant: particles are made for the first wheel of the batch only *)
particlesForFirstOnly(ws, batch, g, born) ==
  IF batch = <<>> THEN <<>>
  ELSE spokeParticles(ws[Head(batch)], Head(batch), g, born)
         \o dotParticles(ws[Head(batch)], Head(batch), g, born)

(* the particles pushed for the wheels of a batch, in batch order *)
RECURSIVE particlesFor(_, _, _, _)
particlesFor(ws, batch, g, born) ==
  IF batch = <<>> THEN <<>>
  ELSE spokeParticles(ws[Head(batch)], Head(batch), g, born)
         \o dotParticles(ws[Head(batch)], Head(batch), g, born)
         \o particlesFor(ws, Tail(batch), g, born)

(* wheels.filter(...) as the ascending sequence of the indices kept *)
RECURSIVE IndicesFrom(_, _, _)
IndicesFrom(keep, i, n) ==
  IF i > n THEN <<>>
  ELSE (IF i \in keep THEN <<i>> ELSE <<>>) \o IndicesFrom(keep, i + 1, n)

Hits(ws, px, py) == { i \in 1..Len(ws) : contains(ws[i], px, py) /\ ~ws[i].isBlownAway }

(* variant: the loop runs from the bottom of the z-order *)
HitWheelLowest(ws, px, py) ==
  IF Hits(ws, px, py) = {} THEN 0
  ELSE CHOOSE i \in Hits(ws, px, py) : \A k \in Hits(ws, px, py) : k >= i

(* the wheel at which the descending loop breaks, 0 when it runs through *)
HitWheel(ws, px, py) ==
  IF Hits(ws, px, py) = {} THEN 0
  ELSE CHOOSE i \in Hits(ws, px, py) : \A k \in Hits(ws, px, py) : k <= i

(* variant: only the clicked wheel is selected *)
wheelsToBlowClickedOnly(ws, i) == <<i>>

(* variant: the filter does not compare colours *)
wheelsToBlowAnyColour(ws, i) ==
  IndicesFrom({ k \in 1..Len(ws) : ~ws[k].isBlownAway }, 1, Len(ws))

wheelsToBlow(ws, i) ==
  IndicesFrom({ k \in 1..Len(ws) : BaseColor(ws[k]) = BaseColor(ws[i]) /\ ~ws[k].isBlownAway },
              1, Len(ws))

InBatch(batch, k) == \E n \in 1..Len(batch) : batch[n] = k

(* variant: the fade level is not reset *)
blowAwayKeepAlpha(w) == [w EXCEPT !.isBlownAway = TRUE]

(* the two assignments made to every wheel of wheelsToBlow *)
blowAway(w) == [w EXCEPT !.isBlownAway = TRUE, !.innerAlpha = 0]

(* variant: every wheel is dispersed, not only the batch *)
blowWheelsAll(ws, batch) == [k \in 1..Len(ws) |-> blowAway(ws[k])]

(* variant: only the first wheel of the batch is dispersed *)
blowWheelsFirstOnly(ws, batch) ==
  [k \in 1..Len(ws) |->
     IF batch # <<>> /\ k = Head(batch) THEN blowAway(ws[k]) ELSE ws[k]]

blowWheels(ws, batch) ==
  [k \in 1..Len(ws) |-> IF InBatch(batch, k) THEN blowAway(ws[k]) ELSE ws[k]]

(* variant: a batch is pushed for every click, hit or miss *)
mousePressedPushesAlways(mouseX, mouseY, g) ==
  LET i == HitWheel(wheels, mouseX, mouseY)
      batch == IF i = 0 THEN <<>> ELSE wheelsToBlow(wheels, i)
  IN /\ blownAwayHistory' = Append(blownAwayHistory, batch)
     /\ wheels' = blowWheels(wheels, batch)
     /\ dandelionParticles' =
          dandelionParticles \o particlesFor(wheels, batch, g, nDispersals + 1)
     /\ nDispersals' = IF i # 0 THEN nDispersals + 1 ELSE nDispersals
     /\ event' = [op |-> "mousePressed", mouseX |-> mouseX, mouseY |-> mouseY, keyCode |-> 0,
                  hit |-> i, restored |-> 0,
                  before |-> [flags |-> Flags(wheels), history |-> blownAwayHistory]]
     /\ UNCHANGED <<canvas, displayed, nTicks, nRestores, nResizes>>

mousePressed(mouseX, mouseY, g) ==
  LET i == HitWheel(wheels, mouseX, mouseY)
      batch == IF i = 0 THEN <<>> ELSE wheelsToBlow(wheels, i)
  IN /\ IF i # 0 /\ Len(batch) > 0
          THEN /\ blownAwayHistory' = Append(blownAwayHistory, batch)
               /\ wheels' = blowWheels(wheels, batch)
               /\ dandelionParticles' =
                    dandelionParticles \o particlesFor(wheels, batch, g, nDispersals + 1)
               /\ nDispersals' = nDispersals + 1
          ELSE UNCHANGED <<wheels, dandelionParticles, blownAwayHistory, nDispersals>>
     /\ event' = [op |-> "mousePressed", mouseX |-> mouseX, mouseY |-> mouseY, keyCode |-> 0,
                  hit |-> i, restored |-> 0,
                  before |-> [flags |-> Flags(wheels), history |-> blownAwayHistory]]
     /\ UNCHANGED <<canvas, displayed, nTicks, nRestores, nResizes>>

(* ---------------------------------------------------------------------- *)
(* keyPressed                                                              *)
(* ---------------------------------------------------------------------- *)
(* The filter of particlesToReturn for wheel w; distances in hundredths   *)
(* of a pixel.  For an outer dot the ring point lies on the ray from the   *)
(* wheel centre through the target (atan2 of the target's offset), so its  *)
(* distance to the target is |D - 0.9 radius| with D the distance from the *)
(* centre to the target; for D = 0 atan2 gives angle 0 and the distance is *)
(* 0.9 radius, the same value.                                             *)
spokeNear(p, w) ==
  DistLess(p.targetX, p.targetY, RingX(w, 80, p.rotation), RingY(w, 80, p.rotation), 1000)

outerDotNear(p, w) ==
  LET R == 90 * w.radius
  IN /\ DistLess(p.targetX, p.targetY, 100 * w.x, 100 * w.y, R + 1000)
     /\ (R < 1000 \/ DistMore(p.targetX, p.targetY, 100 * w.x, 100 * w.y, R - 1000))

particlesToReturn(p, w) ==
  \/ p.type = "spoke" /\ spokeNear(p, w)
  \/ p.type = "outerDot" /\ outerDotNear(p, w)

(* the body of the inner for loop *)
(* variant: the return starts from the target, which moves to where the   *)
(* particle is                                                             *)
startReturnMovesTarget(p) ==
  [p EXCEPT !.isReturning = TRUE, !.originalX = p.x, !.originalY = p.y,
            !.targetX = p.x, !.targetY = p.y]

startReturn(p) ==
  [p EXCEPT !.isReturning = TRUE, !.originalX = p.x, !.originalY = p.y]

(* The loop over wheelsToRestore marks a particle when the filter of some *)
(* wheel of the batch selects it; marking twice equals marking once, and   *)
(* the filter reads only x, y and radius of the wheel and targetX,         *)
(* targetY, type and rotation of the particle, none of which the loop      *)
(* writes.                                                                 *)
restoreParticles(ps, ws, batch) ==
  [n \in 1..Len(ps) |->
     IF \E m \in 1..Len(batch) : particlesToReturn(ps[n], ws[batch[m]])
       THEN startReturn(ps[n])
       ELSE ps[n]]

(* variant: the flag is not cleared *)
restoreKeepFlag(w) == [w EXCEPT !.innerAlpha = 0]

(* the two assignments made to every wheel of wheelsToRestore *)
restore(w) == [w EXCEPT !.isBlownAway = FALSE, !.innerAlpha = 0]

(* variant: every wheel is restored, not only the batch *)
restoreWheelsAll(ws, batch) == [k \in 1..Len(ws) |-> restore(ws[k])]

(* variant: only the first wheel of the batch is restored *)
restoreWheelsFirstOnly(ws, batch) ==
  [k \in 1..Len(ws) |->
     IF batch # <<>> /\ k = Head(batch) THEN restore(ws[k]) ELSE ws[k]]

restoreWheels(ws, batch) ==
  [k \in 1..Len(ws) |-> IF InBatch(batch, k) THEN restore(ws[k]) ELSE ws[k]]

(* variant: the return loop runs over every particle on every spacebar    *)
(* press, outside the test of the history                                  *)
keyPressedReturnAll(keyCode) ==
  /\ IF keyCode = SPACE
       THEN /\ dandelionParticles' =
                 [n \in 1..Len(dandelionParticles) |-> startReturn(dandelionParticles[n])]
            /\ IF Len(blownAwayHistory) > 0
                 THEN /\ blownAwayHistory' =
                           SubSeq(blownAwayHistory, 1, Len(blownAwayHistory) - 1)
                      /\ wheels' =
                           restoreWheels(wheels, blownAwayHistory[Len(blownAwayHistory)])
                      /\ nRestores' = nRestores + 1
                 ELSE UNCHANGED <<wheels, blownAwayHistory, nRestores>>
       ELSE UNCHANGED <<wheels, dandelionParticles, blownAwayHistory, nRestores>>
  /\ event' = [op |-> "keyPressed", mouseX |-> 0, mouseY |-> 0, keyCode |-> keyCode,
                hit |-> 0,
                restored |-> IF keyCode = SPACE /\ Len(blownAwayHistory) > 0
                               THEN Len(blownAwayHistory[Len(blownAwayHistory)]) ELSE 0,
                before |-> NoSnapshot]
  /\ UNCHANGED <<canvas, displayed, nTicks, nDispersals, nResizes>>

(* variant: the oldest batch is taken, not the newest *)
keyPressedOldestFirst(keyCode) ==
  /\ IF keyCode = SPACE /\ Len(blownAwayHistory) > 0
       THEN LET wheelsToRestore == blownAwayHistory[1]
            IN /\ blownAwayHistory' = Tail(blownAwayHistory)
               /\ wheels' = restoreWheels(wheels, wheelsToRestore)
               /\ dandelionParticles' =
                    restoreParticles(dandelionParticles, wheels, wheelsToRestore)
               /\ nRestores' = nRestores + 1
       ELSE UNCHANGED <<wheels, dandelionParticles, blownAwayHistory, nRestores>>
  /\ event' = [op |-> "keyPressed", mouseX |-> 0, mouseY |-> 0, keyCode |-> keyCode,
                hit |-> 0,
                restored |-> IF keyCode = SPACE /\ Len(blownAwayHistory) > 0
                               THEN Len(blownAwayHistory[1]) ELSE 0,
                before |-> NoSnapshot]
  /\ UNCHANGED <<canvas, displayed, nTicks, nDispersals, nResizes>>

(* variant: the restored batch stays in the history *)
keyPressedKeepsBatch(keyCode) ==
  /\ IF keyCode = SPACE /\ Len(blownAwayHistory) > 0
       THEN LET wheelsToRestore == blownAwayHistory[Len(blownAwayHistory)]
            IN /\ blownAwayHistory' = blownAwayHistory
               /\ wheels' = restoreWheels(wheels, wheelsToRestore)
               /\ dandelionParticles' =
                    restoreParticles(dandelionParticles, wheels, wheelsToRestore)
               /\ nRestores' = nRestores + 1
       ELSE UNCHANGED <<wheels, dandelionParticles, blownAwayHistory, nRestores>>
  /\ event' = [op |-> "keyPressed", mouseX |-> 0, mouseY |-> 0, keyCode |-> keyCode,
                hit |-> 0,
                restored |-> IF keyCode = SPACE /\ Len(blownAwayHistory) > 0
                               THEN Len(blownAwayHistory[Len(blownAwayHistory)]) ELSE 0,
                before |-> NoSnapshot]
  /\ UNCHANGED <<canvas, displayed, nTicks, nDispersals, nResizes>>

keyPressed(keyCode) ==
  /\ IF keyCode = SPACE /\ Len(blownAwayHistory) > 0
       THEN LET wheelsToRestore == blownAwayHistory[Len(blownAwayHistory)]
            IN /\ blownAwayHistory' = SubSeq(blownAwayHistory, 1, Len(blownAwayHistory) - 1)
               /\ wheels' = restoreWheels(wheels, wheelsToRestore)
               /\ dandelionParticles' =
                    restoreParticles(dandelionParticles, wheels, wheelsToRestore)
               /\ nRestores' = nRestores + 1
       ELSE UNCHANGED <<wheels, dandelionParticles, blownAwayHistory, nRestores>>
  /\ event' = [op |-> "keyPressed", mouseX |-> 0, mouseY |-> 0, keyCode |-> keyCode,
                hit |-> 0,
                restored |-> IF keyCode = SPACE /\ Len(blownAwayHistory) > 0
                               THEN Len(blownAwayHistory[Len(blownAwayHistory)]) ELSE 0,
                before |-> NoSnapshot]
  /\ UNCHANGED <<canvas, displayed, nTicks, nDispersals, nResizes>>

(* ---------------------------------------------------------------------- *)
(* windowResized, setup                                                    *)
(* ---------------------------------------------------------------------- *)
(* variant: the particles are not cleared *)
initializeArtworkKeepsParticles(l) ==
  /\ canvas' = l.canvas
  /\ wheels' = l.wheels
  /\ dandelionParticles' = dandelionParticles
  /\ blownAwayHistory' = <<>>

initializeArtwork(l) ==
  /\ canvas' = l.canvas
  /\ wheels' = l.wheels
  /\ dandelionParticles' = <<>>
  /\ blownAwayHistory' = <<>>

windowResized(l) ==
  /\ initializeArtwork(l)
  /\ displayed' = {}
  /\ event' = [op |-> "windowResized", mouseX |-> 0, mouseY |-> 0, keyCode |-> 0, hit |-> 0,
                  restored |-> 0, before |-> NoSnapshot]
  /\ nResizes' = nResizes + 1
  /\ nTicks' = 0 /\ nDispersals' = 0 /\ nRestores' = 0

Init ==
  /\ \E l \in Layouts :
       /\ canvas = l.canvas
       /\ wheels = l.wheels
  /\ dandelionParticles = <<>>
  /\ blownAwayHistory = <<>>
  /\ displayed = {}
  /\ event = [op |-> "setup", mouseX |-> 0, mouseY |-> 0, keyCode |-> 0, hit |-> 0,
                  restored |-> 0, before |-> NoSnapshot]
  /\ nTicks = 0 /\ nDispersals = 0 /\ nRestores = 0 /\ nResizes = 0

(* ---------------------------------------------------------------------- *)
(* Inputs and the next-state relation                                      *)
(* ---------------------------------------------------------------------- *)
(* Mouse positions: the first wheel's centre, the midpoint between every  *)
(* two consecutive centres, and the rightmost point of the last wheel's    *)
(* rim.                                                                    *)
ClickPoints ==
  LET n == Len(wheels)
  IN { <<wheels[1].x, wheels[1].y>> }
       \cup { <<(wheels[i].x + wheels[i + 1].x) \div 2, (wheels[i].y + wheels[i + 1].y) \div 2>> :
                i \in 1..(n - 1) }
       \cup { <<wheels[n].x + wheels[n].radius, wheels[n].y>> }

KeyCodes == {SPACE, 13}

(* A callback that changes nothing but the event is always possible; the  *)
(* bounds limit the frames, the dispersals and the restorations of one     *)
(* artwork and the number of resizes.                                      *)
Click(pt, g) ==
  /\ HitWheel(wheels, pt[1], pt[2]) # 0 => nDispersals < MaxDispersals
  /\ mousePressed(pt[1], pt[2], g)

Key(k) ==
  /\ (k = SPACE /\ Len(blownAwayHistory) > 0) => nRestores < MaxRestores
  /\ keyPressed(k)

Next ==
  \/ nTicks < MaxTicks /\ draw
  \/ \E pt \in ClickPoints, g \in Gusts : Click(pt, g)
  \/ \E k \in KeyCodes : Key(k)
  \/ nResizes < MaxResizes /\ \E l \in Layouts : windowResized(l)

Spec == Init /\ [][Next]_vars

(* A single wheel with one dispersal and at most one restoration within   *)
(* the first frames, followed for the whole life of the particles: frames  *)
(* are drawn without end.                                                  *)
InitLong == Init /\ Len(wheels) = 1

NextLong ==
  \/ draw
  \/ /\ nTicks < MaxTicks /\ nDispersals = 0
     /\ \E g \in Gusts : mousePressed(wheels[1].x, wheels[1].y, g)
  \/ /\ nTicks <= RestoreBy /\ nRestores = 0 /\ Len(blownAwayHistory) > 0
     /\ keyPressed(SPACE)

SpecLong == InitLong /\ [][NextLong]_vars

(* p5 calls draw for every frame, for as long as the page is open. *)
SpecLongFair == SpecLong /\ WF_vars(draw)

(* ---------------------------------------------------------------------- *)
(* Properties                                                              *)
(* ---------------------------------------------------------------------- *)
(* What a property says about one step is said of the step's two states;  *)
(* the step is recognised by the event of its second state.  Containment   *)
(* is restated here from the geometry.                                     *)
Within(w, px, py) == Sq(px - w.x) + Sq(py - w.y) < Sq(w.radius)

Clicked == event'.op = "mousePressed"

Spacebar == event'.op = "keyPressed" /\ event'.keyCode = 32

Ticked == event'.op = "draw"

(* the non-dispersed wheels under the mouse before the click *)
Candidates ==
  { k \in 1..Len(wheels) :
      Within(wheels[k], event'.mouseX, event'.mouseY) /\ ~wheels[k].isBlownAway }

Topmost == CHOOSE k \in Candidates : \A m \in Candidates : m <= k

Changed == { k \in 1..Len(wheels) : wheels'[k].isBlownAway # wheels[k].isBlownAway }

SameColour(a, b) == colorPalettes[a.colors][1] = colorPalettes[b.colors][1]

BatchSet(batch) == { batch[n] : n \in 1..Len(batch) }

(* C1: a click that hits a non-dispersed wheel changes the isBlownAway    *)
(* flag of exactly the wheels that were non-dispersed and have the hit     *)
(* wheel's base colour; all of them, the hit wheel included, become        *)
(* dispersed, and every wheel of another base colour keeps its flag and    *)
(* its fade level.                                                         *)
C1_ClickDispersesColourGroup ==
  [][ (Clicked /\ Candidates # {}) =>
        /\ Len(wheels') = Len(wheels)
        /\ Changed = { k \in 1..Len(wheels) :
                         ~wheels[k].isBlownAway /\ SameColour(wheels[k], wheels[Topmost]) }
        /\ Topmost \in Changed
        /\ \A k \in Changed : wheels'[k].isBlownAway
        /\ \A k \in 1..Len(wheels) :
             ~SameColour(wheels[k], wheels[Topmost]) =>
               /\ wheels'[k].isBlownAway = wheels[k].isBlownAway
               /\ wheels'[k].innerAlpha = wheels[k].innerAlpha ]_vars

(* a click has just dispersed a colour group of two wheels while a wheel  *)
(* of another colour, already faded in part, stays intact                  *)
C1_Witness ==
  /\ event.op = "mousePressed" /\ event.hit # 0
  /\ \E k \in 1..Len(wheels) :
       /\ k # event.hit
       /\ SameColour(wheels[k], wheels[event.hit])
       /\ wheels[k].isBlownAway /\ wheels[event.hit].isBlownAway
  /\ \E k \in 1..Len(wheels) :
       /\ ~SameColour(wheels[k], wheels[event.hit])
       /\ ~wheels[k].isBlownAway /\ wheels[k].innerAlpha > 0

(* C2: a click that disperses N >= 1 wheels adds exactly N * (24 + 40)    *)
(* particles, lengthens the history by exactly one batch, and that batch   *)
(* holds exactly the N wheels.                                             *)
C2_ParticlesAndBatchPerClick ==
  [][ (Clicked /\ Changed # {}) =>
        /\ Len(dandelionParticles') =
             Len(dandelionParticles) + Cardinality(Changed) * (24 + 40)
        /\ Len(blownAwayHistory') = Len(blownAwayHistory) + 1
        /\ SubSeq(blownAwayHistory', 1, Len(blownAwayHistory)) = blownAwayHistory
        /\ BatchSet(blownAwayHistory'[Len(blownAwayHistory')]) = Changed
        /\ Len(blownAwayHistory'[Len(blownAwayHistory')]) = Cardinality(Changed) ]_vars

(* a second click has just dispersed one more wheel on top of the 128     *)
(* particles of a two-wheel batch                                          *)
C2_Witness ==
  /\ event.op = "mousePressed" /\ event.hit # 0
  /\ Len(blownAwayHistory) = 2
  /\ Len(blownAwayHistory[1]) = 2 /\ Len(blownAwayHistory[2]) = 1
  /\ Len(dandelionParticles) = 192

C4_Original ==
  [][ (/\ Clicked
       /\ \/ \A k \in 1..Len(wheels) : ~Within(wheels[k], event'.mouseX, event'.mouseY)
          \/ \E k \in 1..Len(wheels) :
               Within(wheels[k], event'.mouseX, event'.mouseY) /\ wheels[k].isBlownAway)
      => UNCHANGED <<wheels, dandelionParticles, blownAwayHistory>> ]_vars

(* C4 amended: a click at a point that no non-dispersed wheel contains    *)
(* (inside no wheel at all, or inside already-dispersed wheels only)       *)
(* changes no wheel, no particle and no batch.                             *)
C4_ClickOffIntactWheelsIsNoOp ==
  [][ (Clicked /\ Candidates = {})
      => UNCHANGED <<wheels, dandelionParticles, blownAwayHistory>> ]_vars

(* a click inside a dispersed wheel, with its particles in flight, has    *)
(* just been ignored                                                       *)
C4_Witness ==
  /\ event.op = "mousePressed" /\ event.hit = 0
  /\ \E k \in 1..Len(wheels) :
       Within(wheels[k], event.mouseX, event.mouseY) /\ wheels[k].isBlownAway
  /\ Len(dandelionParticles) > 0
  /\ Len(blownAwayHistory) > 0

(* the last batch of the history before a step *)
LastBatch == blownAwayHistory[Len(blownAwayHistory)]

(* C5: a spacebar press with a non-empty history removes exactly the last *)
(* batch, and right after it every wheel of that batch has                 *)
(* isBlownAway = false and innerAlpha = 0.                                 *)
C5_RestorePopsOneBatch ==
  [][ (Spacebar /\ Len(blownAwayHistory) > 0) =>
        /\ Len(blownAwayHistory') = Len(blownAwayHistory) - 1
        /\ blownAwayHistory' = SubSeq(blownAwayHistory, 1, Len(blownAwayHistory) - 1)
        /\ \A k \in BatchSet(LastBatch) :
             ~wheels'[k].isBlownAway /\ wheels'[k].innerAlpha = 0 ]_vars

(* a spacebar press has just restored a batch of two wheels *)
C5_Witness ==
  /\ event.op = "keyPressed" /\ event.keyCode = 32 /\ event.restored = 2
  /\ \A k \in 1..Len(wheels) : ~wheels[k].isBlownAway
  /\ Len(dandelionParticles) > 0

(* C6: a spacebar press while the history is empty changes no wheel, no   *)
(* particle (isReturning, originalX, originalY included) and no batch.     *)
C6_RestoreOnEmptyHistoryIsNoOp ==
  [][ (Spacebar /\ Len(blownAwayHistory) = 0)
      => UNCHANGED <<wheels, dandelionParticles, blownAwayHistory>> ]_vars

(* the spacebar has just been pressed on an empty history while particles *)
(* of an earlier, already restored dispersal are still alive and have      *)
(* moved since they were told to return                                    *)
C6_Witness ==
  /\ event.op = "keyPressed" /\ event.keyCode = 32 /\ event.restored = 0
  /\ Len(blownAwayHistory) = 0
  /\ \E n \in 1..Len(dandelionParticles) :
       /\ dandelionParticles[n].isReturning
       /\ dandelionParticles[n].retSteps > 0

(* C7: a restoration leaves isBlownAway and innerAlpha of every wheel     *)
(* outside the popped batch as they were.                                  *)
C7_RestoreTouchesOnlyItsBatch ==
  [][ (Spacebar /\ Len(blownAwayHistory) > 0) =>
        /\ Len(wheels') = Len(wheels)
        /\ \A k \in 1..Len(wheels) :
             k \notin BatchSet(LastBatch) =>
               /\ wheels'[k].isBlownAway = wheels[k].isBlownAway
               /\ wheels'[k].innerAlpha = wheels[k].innerAlpha ]_vars

(* a batch has just been restored while an older batch stays dispersed    *)
C7_Witness ==
  /\ event.op = "keyPressed" /\ event.restored > 0
  /\ Len(blownAwayHistory) = 1
  /\ \A k \in BatchSet(blownAwayHistory[1]) : wheels[k].isBlownAway
  /\ \E k \in 1..Len(wheels) : ~wheels[k].isBlownAway

(* C8 as stated: right after a restoration every live particle that was   *)
(* made from a wheel of the popped batch, spoke or outer dot, however many *)
(* frames after the dispersal, has isReturning = true.                     *)
C8_BatchParticlesAllReturn ==
  [][ (Spacebar /\ Len(blownAwayHistory) > 0) =>
        /\ Len(dandelionParticles') = Len(dandelionParticles)
        /\ \A n \in 1..Len(dandelionParticles) :
             dandelionParticles[n].src \in BatchSet(LastBatch)
               => dandelionParticles'[n].isReturning ]_vars

(* Two particle records of the same particle. *)
SameParticle(p, q) ==
  p.src = q.src /\ p.born = q.born /\ p.type = q.type /\ p.j = q.j

(* Where the particle at index n before a step is found after it: at n    *)
(* unless particles below it were removed; 0 when it is gone.              *)
After(n) ==
  IF n <= Len(dandelionParticles')
       /\ SameParticle(dandelionParticles[n], dandelionParticles'[n])
    THEN n
    ELSE IF \E m \in 1..Len(dandelionParticles') :
              SameParticle(dandelionParticles[n], dandelionParticles'[m])
           THEN CHOOSE m \in 1..Len(dandelionParticles') :
                  SameParticle(dandelionParticles[n], dandelionParticles'[m])
           ELSE 0

(* C10: the opacity of a particle that is not returning never rises from  *)
(* one state to the next: a frame lowers it by exactly 2, a click or a key *)
(* press leaves it as it is.                                               *)
C10_DriftAlphaNeverRises ==
  [][ \A n \in 1..Len(dandelionParticles) :
        (~dandelionParticles[n].isReturning /\ After(n) # 0) =>
          LET p == dandelionParticles[n]
              q == dandelionParticles'[After(n)]
          IN /\ q.alpha <= p.alpha
             /\ q.retSteps = 0
             /\ Ticked => q.alpha = p.alpha - 2
             /\ (event'.op \in {"mousePressed", "keyPressed"}) => q.alpha = p.alpha ]_vars

(* drifting particles have just been through their second frame *)
C10_Witness ==
  /\ event.op = "draw"
  /\ \E n \in 1..Len(dandelionParticles) :
       /\ ~dandelionParticles[n].isReturning
       /\ dandelionParticles[n].driftSteps = 2
       /\ dandelionParticles[n].alpha = 251

(* C9 as stated: after every particle update, the one of the frame in     *)
(* which the particle is drawn for the last time and removed included, the *)
(* particle's opacity is within 0..255.  displayed holds the opacity of    *)
(* every particle drawn in the last frame as alpha * (9/10)^retSteps.      *)
C9_DrawnAlphaWithinRange ==
  \A d \in displayed : d[1] >= 0 /\ d[1] <= 255

(* C11: a particle that is never switched to returning lives for exactly  *)
(* 128 frames: it is created with no frame behind it, every frame it       *)
(* survives counts one more and lowers its opacity by 2 from 255, it is    *)
(* removed in its 128th frame, the one that takes the opacity to 0 or      *)
(* below, and no particle that is gone comes back.                         *)
C11_DriftingParticleRemovedAfter128Ticks ==
  [][ /\ \A m \in 1..Len(dandelionParticles') :
           ~dandelionParticles'[m].isReturning =>
             /\ dandelionParticles'[m].driftSteps < 128
             /\ dandelionParticles'[m].alpha = 255 - 2 * dandelionParticles'[m].driftSteps
             /\ dandelionParticles'[m].alpha > 0
      /\ Clicked =>
           \A m \in (Len(dandelionParticles) + 1)..Len(dandelionParticles') :
             dandelionParticles'[m].driftSteps = 0
      /\ Ticked =>
           \A n \in 1..Len(dandelionParticles) :
             ~dandelionParticles[n].isReturning =>
               IF dandelionParticles[n].driftSteps = 127
                 THEN After(n) = 0
                 ELSE /\ After(n) # 0
                      /\ ~dandelionParticles'[After(n)].isReturning
                      /\ dandelionParticles'[After(n)].driftSteps =
                           dandelionParticles[n].driftSteps + 1
      /\ ~Clicked =>
           \A m \in 1..Len(dandelionParticles') :
             \E n \in 1..Len(dandelionParticles) :
               SameParticle(dandelionParticles[n], dandelionParticles'[m]) ]_vars

(* the 128th frame after a dispersal that was never restored has just     *)
(* removed every particle                                                  *)
C11_Witness ==
  /\ event.op = "draw" /\ nTicks = 128
  /\ nDispersals = 1 /\ nRestores = 0
  /\ wheels[1].isBlownAway
  /\ dandelionParticles = <<>>

(* C12 as stated: with a frame drawn again and again, every particle that *)
(* has been switched to returning is eventually removed: whenever          *)
(* returning particles are live, a later state has none.                   *)
C12_ReturningParticlesEventuallyRemoved ==
  (\E n \in 1..Len(dandelionParticles) : dandelionParticles[n].isReturning)
    ~> (\A n \in 1..Len(dandelionParticles) : ~dandelionParticles[n].isReturning)

(* C13: the history is last-in-first-out.  A dispersing click puts its    *)
(* batch at the end of the history; a restoration takes the batch at the   *)
(* end, makes exactly that batch's wheels non-dispersed, and leaves every  *)
(* older batch in place with its wheels dispersed.  So of two batches A    *)
(* and B pushed in this order the next restoration restores B and the one  *)
(* after it A.                                                             *)
C13_HistoryIsLastInFirstOut ==
  [][ /\ (Clicked /\ Changed # {}) =>
           /\ Len(blownAwayHistory') = Len(blownAwayHistory) + 1
           /\ \A m \in 1..Len(blownAwayHistory) : blownAwayHistory'[m] = blownAwayHistory[m]
           /\ BatchSet(blownAwayHistory'[Len(blownAwayHistory')]) = Changed
      /\ (Spacebar /\ Len(blownAwayHistory) > 0) =>
           /\ Changed = BatchSet(LastBatch)
           /\ \A k \in Changed : ~wheels'[k].isBlownAway
           /\ Len(blownAwayHistory') = Len(blownAwayHistory) - 1
           /\ \A m \in 1..Len(blownAwayHistory') :
                /\ blownAwayHistory'[m] = blownAwayHistory[m]
                /\ \A k \in BatchSet(blownAwayHistory[m]) : wheels'[k].isBlownAway ]_vars

(* two dispersals, then two restorations with a frame between them: the   *)
(* particles of the second dispersal were sent back first and have moved,  *)
(* those of the first dispersal have just been sent back                   *)
C13_Witness ==
  /\ event.op = "keyPressed" /\ event.restored > 0
  /\ nDispersals = 2 /\ nRestores = 2
  /\ Len(blownAwayHistory) = 0
  /\ \A k \in 1..Len(wheels) : ~wheels[k].isBlownAway
  /\ \E n \in 1..Len(dandelionParticles) :
       /\ dandelionParticles[n].born = 2
       /\ dandelionParticles[n].isReturning /\ dandelionParticles[n].retSteps > 0
  /\ \E n \in 1..Len(dandelionParticles) :
       /\ dandelionParticles[n].born = 1 /\ dandelionParticles[n].type = "spoke"
       /\ dandelionParticles[n].isReturning /\ dandelionParticles[n].retSteps = 0

(* C14: round trip.  When a spacebar press follows a dispersing click     *)
(* directly, every wheel's isBlownAway flag and the history are after the  *)
(* press what the click found before it.                                   *)
C14_ClickThenRestoreRoundTrip ==
  [][ (Spacebar /\ event.op = "mousePressed" /\ event.hit # 0) =>
        /\ [k \in 1..Len(wheels') |-> wheels'[k].isBlownAway] = event.before.flags
        /\ blownAwayHistory' = event.before.history ]_vars

(* a second dispersal, made while an older batch was dispersed and its    *)
(* particles had drifted, has just been undone before any frame was drawn  *)
C14_Witness ==
  /\ event.op = "keyPressed" /\ event.restored > 0
  /\ nDispersals = 2 /\ nRestores = 1
  /\ Len(blownAwayHistory) = 1
  /\ \E k \in 1..Len(wheels) : wheels[k].isBlownAway
  /\ \E n \in 1..Len(dandelionParticles) :
       dandelionParticles[n].born = 1 /\ dandelionParticles[n].driftSteps > 0
  /\ \A n \in 1..Len(dandelionParticles) :
       dandelionParticles[n].born = 2 =>
         /\ dandelionParticles[n].driftSteps = 0
         /\ dandelionParticles[n].isReturning

(* C15: a frame drawn while there is no particle changes nothing but the  *)
(* innerAlpha of the non-dispersed wheels: the particle collection stays   *)
(* empty, the history, the canvas and every wheel's place, size, colours   *)
(* and isBlownAway stay as they are, and so does the innerAlpha of a       *)
(* dispersed wheel.                                                        *)
C15_FrameWithoutParticles ==
  [][ (Ticked /\ dandelionParticles = <<>>) =>
        /\ dandelionParticles' = <<>>
        /\ blownAwayHistory' = blownAwayHistory
        /\ canvas' = canvas
        /\ Len(wheels') = Len(wheels)
        /\ \A k \in 1..Len(wheels) :
             /\ [wheels'[k] EXCEPT !.innerAlpha = 0] = [wheels[k] EXCEPT !.innerAlpha = 0]
             /\ wheels[k].isBlownAway => wheels'[k].innerAlpha = wheels[k].innerAlpha ]_vars

(* a frame has just been drawn with no particle left and the wheel still  *)
(* dispersed: the frame before it had removed the last particles           *)
C15_Witness ==
  /\ event.op = "draw" /\ nTicks = 130
  /\ dandelionParticles = <<>>
  /\ Len(blownAwayHistory) = 1
  /\ wheels[1].isBlownAway /\ wheels[1].innerAlpha = 0

(* C16: whatever the state before it, a resize leaves no particle and no  *)
(* batch, at most 25 wheels, and every wheel non-dispersed with            *)
(* innerAlpha = 0.                                                         *)
C16_ResizeResetsArtwork ==
  [][ event'.op = "windowResized" =>
        /\ dandelionParticles' = <<>>
        /\ blownAwayHistory' = <<>>
        /\ Len(wheels') <= 25
        /\ \A k \in 1..Len(wheels') :
             ~wheels'[k].isBlownAway /\ wheels'[k].innerAlpha = 0 ]_vars

(* the window has just been resized to the large canvas *)
C16_Witness ==
  /\ event.op = "windowResized" /\ nResizes = 1
  /\ canvas.width = 1920
  /\ Len(wheels) = 3
  /\ dandelionParticles = <<>> /\ blownAwayHistory = <<>>

(* C17: one click makes at most one selection: the history grows by at    *)
(* most one batch and the wheels that become dispersed all have one base   *)
(* colour, that of the topmost non-dispersed wheel under the mouse, also   *)
(* when non-dispersed wheels of other base colours contain the click       *)
(* point.                                                                  *)
C17_OneSelectionPerClick ==
  [][ Clicked =>
        /\ Len(blownAwayHistory') <= Len(blownAwayHistory) + 1
        /\ \A m \in 1..Len(blownAwayHistory) : blownAwayHistory'[m] = blownAwayHistory[m]
        /\ \A a \in Changed, b \in Changed : SameColour(wheels[a], wheels[b])
        /\ \A k \in Candidates :
             ~SameColour(wheels[k], wheels[Topmost]) => ~wheels'[k].isBlownAway ]_vars

(* a click where two non-dispersed wheels of different base colours       *)
(* overlap has just dispersed the upper one's colour and left the lower    *)
(* one intact                                                              *)
C17_Witness ==
  /\ event.op = "mousePressed" /\ event.hit # 0
  /\ wheels[event.hit].isBlownAway
  /\ \E k \in 1..Len(wheels) :
       /\ k # event.hit
       /\ Within(wheels[k], event.mouseX, event.mouseY)
       /\ ~SameColour(wheels[k], wheels[event.hit])
       /\ ~wheels[k].isBlownAway
       /\ ~event.before.flags[k]

(* C18: a particle is created not returning; its isReturning goes from    *)
(* false to true only in a spacebar press that pops a batch, never in a    *)
(* frame or a click; and a returning particle that is still live after a   *)
(* step is still returning.                                                *)
C18_ReturningIsEnteredByRestoreAndKept ==
  [][ /\ \A n \in 1..Len(dandelionParticles) :
           After(n) # 0 =>
             /\ dandelionParticles[n].isReturning
                  => dandelionParticles'[After(n)].isReturning
             /\ (~dandelionParticles[n].isReturning
                   /\ dandelionParticles'[After(n)].isReturning)
                  => (Spacebar /\ Len(blownAwayHistory) > 0)
      /\ Clicked =>
           \A m \in (Len(dandelionParticles) + 1)..Len(dandelionParticles') :
             ~dandelionParticles'[m].isReturning ]_vars

(* a click has just added drifting particles beside particles that were   *)
(* sent back earlier and have moved through a frame since                  *)
C18_Witness ==
  /\ event.op = "mousePressed" /\ event.hit # 0
  /\ \E n \in 1..Len(dandelionParticles) :
       /\ dandelionParticles[n].born = 1
       /\ dandelionParticles[n].isReturning /\ dandelionParticles[n].retSteps > 0
  /\ \E n \in 1..Len(dandelionParticles) :
       /\ dandelionParticles[n].born = 2
       /\ ~dandelionParticles[n].isReturning

(* C19: no batch of the history is empty, before and after every step,    *)
(* and a click lengthens the history if and only if it turns at least one  *)
(* wheel from non-dispersed to dispersed.                                  *)
C19_BatchesNonEmptyAndPushedOnDispersal ==
  [][ /\ \A m \in 1..Len(blownAwayHistory) : Len(blownAwayHistory[m]) > 0
      /\ \A m \in 1..Len(blownAwayHistory') : Len(blownAwayHistory'[m]) > 0
      /\ Clicked =>
           (Len(blownAwayHistory') > Len(blownAwayHistory)
              <=> \E k \in 1..Len(wheels) :
                    ~wheels[k].isBlownAway /\ wheels'[k].isBlownAway) ]_vars

(* a click that dispersed nothing has just left a history of two batches  *)
(* as it was                                                               *)
C19_Witness ==
  /\ event.op = "mousePressed" /\ event.hit = 0
  /\ Len(blownAwayHistory) = 2
  /\ event.before.history = blownAwayHistory
  /\ event.before.flags = [k \in 1..Len(wheels) |-> wheels[k].isBlownAway]

(* a coordinate after one return step towards t, in hundredths of a pixel *)
Eased(a, t) == a + (2 * (t - a) + 20) \div 40

(* C20: a frame removes a particle if and only if the particle, after its *)
(* own update of that frame, is (a) not returning with opacity <= 0 (the   *)
(* update took 2 from an opacity of at most 2), or (b) returning with      *)
(* opacity <= 0 and less than 1 pixel from its target; every other         *)
(* particle stays, and the particles that stay keep their order.           *)
C20_FrameRemovesExactlyTheFadedParticles ==
  [][ Ticked =>
        /\ \A n \in 1..Len(dandelionParticles) :
             LET p == dandelionParticles[n]
                 a == ~p.isReturning /\ p.alpha - 2 <= 0
                 b == /\ p.isReturning
                      /\ p.alpha <= 0
                      /\ Sq(Eased(p.x, p.targetX) - p.targetX)
                           + Sq(Eased(p.y, p.targetY) - p.targetY) < Sq(100)
             IN (After(n) = 0) <=> (a \/ b)
        /\ \A n \in 1..Len(dandelionParticles), m \in 1..Len(dandelionParticles) :
             (n < m /\ After(n) # 0 /\ After(m) # 0) => After(n) < After(m)
        /\ Len(dandelionParticles') =
             Cardinality({ n \in 1..Len(dandelionParticles) : After(n) # 0 }) ]_vars

(* the frame that took the drifting spokes to opacity -1 has just removed *)
(* all 24 of them and left the 40 returning dots, which were above them in *)
(* the array, in place                                                     *)
C20_Witness ==
  /\ event.op = "draw" /\ nTicks = 128
  /\ nRestores = 1
  /\ Len(dandelionParticles) = 40
  /\ \A n \in 1..Len(dandelionParticles) :
       /\ dandelionParticles[n].type = "outerDot"
       /\ dandelionParticles[n].isReturning
       /\ dandelionParticles[n].j = n - 1

(* C21: a frame updates every particle that is live at its start exactly  *)
(* once, whichever particles the same pass removes.  A particle that stays *)
(* shows one step of its motion: a drifting one has moved by its velocity, *)
(* gained its wind, turned by its rotation speed, lost 2 of opacity and    *)
(* counts one more drift step; a returning one has made one step of easing *)
(* towards its target and counts one more return step (up to the cap).     *)
(* What the frame drew is, for every particle live at its start, removed   *)
(* or not, the particle after exactly one update, and nothing else.        *)
C21_EveryParticleUpdatedOncePerFrame ==
  [][ Ticked =>
        /\ \A n \in 1..Len(dandelionParticles) :
             After(n) # 0 =>
               LET p == dandelionParticles[n]
                   q == dandelionParticles'[After(n)]
               IN IF p.isReturning
                    THEN /\ q.x = Eased(p.x, p.targetX)
                         /\ q.y = Eased(p.y, p.targetY)
                         /\ q.retSteps = (IF p.retSteps < MaxRetSteps
                                            THEN p.retSteps + 1 ELSE MaxRetSteps)
                         /\ q.driftSteps = p.driftSteps
                         /\ q.alpha = p.alpha
                    ELSE /\ q.x = p.x + p.velX
                         /\ q.y = p.y + p.velY
                         /\ q.velX = p.velX + p.windX
                         /\ q.velY = p.velY + p.windY
                         /\ q.rotation = p.rotation + p.rotationSpeed
                         /\ q.alpha = p.alpha - 2
                         /\ q.driftSteps = p.driftSteps + 1
                         /\ q.retSteps = 0
        /\ displayed' =
             { IF dandelionParticles[n].isReturning
                 THEN <<dandelionParticles[n].alpha,
                        IF dandelionParticles[n].retSteps < MaxRetSteps
                          THEN dandelionParticles[n].retSteps + 1 ELSE MaxRetSteps>>
                 ELSE <<dandelionParticles[n].alpha - 2, 0>> :
               n \in 1..Len(dandelionParticles) } ]_vars

(* a frame has just removed the 24 drifting spokes, drawn at opacity -1,  *)
(* and moved each of the 40 returning dots by its 124th return step        *)
C21_Witness ==
  /\ event.op = "draw" /\ nTicks = 128
  /\ Len(dandelionParticles) = 40
  /\ \A n \in 1..Len(dandelionParticles) :
       dandelionParticles[n].isReturning /\ dandelionParticles[n].retSteps = 124
  /\ <<-1, 0>> \in displayed
  /\ <<247, 124>> \in displayed

(* C22 as stated: a restoration leaves isReturning, originalX and         *)
(* originalY of every particle made from a wheel outside the popped batch  *)
(* as they were, also when that wheel overlaps a restored wheel.           *)
C22_RestoreLeavesOtherWheelsParticles ==
  [][ (Spacebar /\ Len(blownAwayHistory) > 0) =>
        /\ Len(dandelionParticles') = Len(dandelionParticles)
        /\ \A n \in 1..Len(dandelionParticles) :
             dandelionParticles[n].src \notin BatchSet(LastBatch) =>
               /\ dandelionParticles'[n].isReturning = dandelionParticles[n].isReturning
               /\ dandelionParticles'[n].originalX = dandelionParticles[n].originalX
               /\ dandelionParticles'[n].originalY = dandelionParticles[n].originalY ]_vars

(* C23: of the wheels that contain the click point and are not dispersed, *)
(* the one with the highest index triggers the click, dispersed wheels     *)
(* above it being passed over; the batch pushed is the set of              *)
(* non-dispersed wheels with that wheel's base colour, whatever other      *)
(* wheels contain the point.                                               *)
C23_TopmostIntactWheelTriggers ==
  [][ (Clicked /\ Candidates # {}) =>
        /\ event'.hit \in Candidates
        /\ \A k \in Candidates : k <= event'.hit
        /\ Len(blownAwayHistory') = Len(blownAwayHistory) + 1
        /\ BatchSet(blownAwayHistory'[Len(blownAwayHistory')]) =
             { k \in 1..Len(wheels) :
                 /\ ~wheels[k].isBlownAway
                 /\ colorPalettes[wheels[k].colors][1]
                      = colorPalettes[wheels[event'.hit].colors][1] } ]_vars

(* a click where a dispersed wheel lies over a non-dispersed one has just *)
(* been triggered by the lower wheel                                       *)
C23_Witness ==
  /\ event.op = "mousePressed" /\ event.hit # 0
  /\ ~event.before.flags[event.hit]
  /\ \E k \in 1..Len(wheels) :
       /\ k > event.hit
       /\ Within(wheels[k], event.mouseX, event.mouseY)
       /\ event.before.flags[k]
  /\ \A k \in BatchSet(blownAwayHistory[Len(blownAwayHistory)]) :
       SameColour(wheels[k], wheels[event.hit])

(* C24 as stated: the containment test succeeds when the distance from    *)
(* the click point to the centre is at most the radius, so a click at a    *)
(* point within that distance of a non-dispersed wheel, the rim included,  *)
(* disperses wheels.                                                       *)
C24_Original ==
  [][ (/\ Clicked
       /\ \E k \in 1..Len(wheels) :
            /\ ~wheels[k].isBlownAway
            /\ Sq(event'.mouseX - wheels[k].x) + Sq(event'.mouseY - wheels[k].y)
                 <= Sq(wheels[k].radius))
      => \E k \in 1..Len(wheels) : ~wheels[k].isBlownAway /\ wheels'[k].isBlownAway ]_vars

(* C24 amended: the containment test succeeds when the distance from the  *)
(* click point to the centre is less than the radius.  A click disperses   *)
(* wheels if and only if some non-dispersed wheel has its centre nearer    *)
(* than its radius; a click exactly on the rim of a non-dispersed wheel,   *)
(* inside no other non-dispersed wheel, changes no wheel, no particle and  *)
(* no batch.                                                               *)
C24_RimIsOutside ==
  [][ Clicked =>
        /\ (\E k \in 1..Len(wheels) : ~wheels[k].isBlownAway /\ wheels'[k].isBlownAway)
             <=> \E k \in 1..Len(wheels) :
                   /\ ~wheels[k].isBlownAway
                   /\ Sq(event'.mouseX - wheels[k].x) + Sq(event'.mouseY - wheels[k].y)
                        < Sq(wheels[k].radius)
        /\ (/\ \E k \in 1..Len(wheels) :
                 /\ ~wheels[k].isBlownAway
                 /\ Sq(event'.mouseX - wheels[k].x) + Sq(event'.mouseY - wheels[k].y)
                      = Sq(wheels[k].radius)
            /\ Candidates = {})
             => UNCHANGED <<wheels, dandelionParticles, blownAwayHistory>> ]_vars

(* a click exactly on the rim of a non-dispersed wheel has just been      *)
(* ignored                                                                 *)
C24_Witness ==
  /\ event.op = "mousePressed" /\ event.hit = 0
  /\ \E k \in 1..Len(wheels) :
       /\ ~wheels[k].isBlownAway
       /\ Sq(event.mouseX - wheels[k].x) + Sq(event.mouseY - wheels[k].y)
            = Sq(wheels[k].radius)
  /\ \A k \in 1..Len(wheels) : ~wheels[k].isBlownAway /\ ~event.before.flags[k]
  /\ dandelionParticles = <<>>

(* C25: a frame sets the innerAlpha of a non-dispersed wheel to           *)
(* min(innerAlpha + 5, 255): it does not fall, does not pass 255 and stays *)
(* at 255 once there; the innerAlpha of a dispersed wheel is 0 after the   *)
(* frame.                                                                  *)
C25_FadeStepPerFrame ==
  [][ Ticked =>
        \A k \in 1..Len(wheels) :
          IF wheels[k].isBlownAway
            THEN wheels'[k].innerAlpha = 0
            ELSE /\ wheels'[k].innerAlpha =
                      (IF wheels[k].innerAlpha + 5 < 255 THEN wheels[k].innerAlpha + 5 ELSE 255)
                 /\ wheels'[k].innerAlpha >= wheels[k].innerAlpha
                 /\ wheels'[k].innerAlpha <= 255
                 /\ wheels[k].innerAlpha = 255 => wheels'[k].innerAlpha = 255 ]_vars

(* a wheel that was never dispersed has been at 255 for some frames *)
C25_Witness ==
  /\ event.op = "draw" /\ nTicks = 60
  /\ nDispersals = 0
  /\ ~wheels[1].isBlownAway /\ wheels[1].innerAlpha = 255

(* the fade level t frames after a wheel was created or restored *)
RiseAfter(t) == IF 5 * t < 255 THEN 5 * t ELSE 255

(* C26: a wheel that is not dispersed has innerAlpha = min(5 t, 255),     *)
(* t being the frames drawn since it was created or, if it was dispersed   *)
(* since, since it was restored: 250 after 50 frames, 255 after 51 and     *)
(* from then on; a dispersed wheel has innerAlpha = 0, whatever the level  *)
(* it had reached.  The frames since the restoration are counted by the    *)
(* return steps of the particles the restoration sent back.                *)
C26_FadeInTakes51Frames ==
  \A k \in 1..Len(wheels) :
    IF wheels[k].isBlownAway
      THEN wheels[k].innerAlpha = 0
      ELSE IF nDispersals = 0
             THEN wheels[k].innerAlpha = RiseAfter(nTicks)
             ELSE /\ \E n \in 1..Len(dandelionParticles) : dandelionParticles[n].isReturning
                  /\ \A n \in 1..Len(dandelionParticles) :
                       dandelionParticles[n].isReturning =>
                         wheels[k].innerAlpha = RiseAfter(dandelionParticles[n].retSteps)

(* the 51st frame after a restoration has just taken the wheel to 255; it *)
(* had been dispersed after its first frame, at level 5                    *)
C26_Witness ==
  /\ event.op = "draw"
  /\ nDispersals = 1 /\ nRestores = 1
  /\ ~wheels[1].isBlownAway /\ wheels[1].innerAlpha = 255
  /\ \E n \in 1..Len(dandelionParticles) :
       /\ dandelionParticles[n].isReturning
       /\ dandelionParticles[n].retSteps = 51
       /\ dandelionParticles[n].driftSteps = 0
  /\ nTicks = 52

(* the point (px, py), in hundredths of a pixel, lies on the ring of      *)
(* pct percent of the radius of wheel w, to a fifth of a pixel             *)
OnRing(w, pct, px, py) ==
  LET dd == Sq(px - 100 * w.x) + Sq(py - 100 * w.y)
  IN /\ dd >= Sq(pct * w.radius - 20)
     /\ dd <= Sq(pct * w.radius + 20)

(* the particles a click has appended *)
Created == (Len(dandelionParticles) + 1)..Len(dandelionParticles')

(* the return targets of the created particles of one type of wheel k *)
CreatedTargets(k, type) ==
  { <<dandelionParticles'[n].targetX, dandelionParticles'[n].targetY>> :
      n \in { m \in Created : /\ dandelionParticles'[m].src = k
                              /\ dandelionParticles'[m].type = type } }

(* C27: every particle a click creates has position = origin = return     *)
(* target, alpha 255 and isReturning = false; the targets of a dispersed   *)
(* wheel are 24 distinct points on its 0.8 radius ring for the spokes and  *)
(* 40 distinct points on its 0.9 radius ring for the outer dots; and no    *)
(* step changes the return target of a particle that survives it.          *)
C27_ParticleStartsOnItsRingPoint ==
  [][ /\ Clicked =>
           /\ \A n \in Created :
                LET p == dandelionParticles'[n]
                IN /\ p.x = p.originalX /\ p.x = p.targetX
                   /\ p.y = p.originalY /\ p.y = p.targetY
                   /\ p.alpha = 255
                   /\ ~p.isReturning
                   /\ p.src \in Changed
                   /\ p.type \in {"spoke", "outerDot"}
                   /\ OnRing(wheels[p.src], IF p.type = "spoke" THEN 80 ELSE 90,
                             p.targetX, p.targetY)
           /\ \A k \in Changed :
                /\ Cardinality(CreatedTargets(k, "spoke")) = 24
                /\ Cardinality(CreatedTargets(k, "outerDot")) = 40
      /\ \A n \in 1..Len(dandelionParticles) :
           \A m \in { After(n) } \ {0} :
             /\ dandelionParticles'[m].targetX = dandelionParticles[n].targetX
             /\ dandelionParticles'[m].targetY = dandelionParticles[n].targetY
    ]_vars

(* a particle that drifted away from its ring point, was sent back and is *)
(* on its way, its target still on the ring of its wheel                   *)
C27_Witness ==
  \E n \in 1..Len(dandelionParticles) :
    LET p == dandelionParticles[n]
    IN /\ p.isReturning
       /\ p.driftSteps > 0 /\ p.retSteps > 0
       /\ p.x # p.targetX
       /\ p.originalX # p.targetX
       /\ OnRing(wheels[p.src], IF p.type = "spoke" THEN 80 ELSE 90, p.targetX, p.targetY)

(* the batches of the history that wheel k is a member of *)
BatchesOf(k) ==
  { n \in 1..Len(blownAwayHistory) : k \in BatchSet(blownAwayHistory[n]) }

(* C28: in every reachable state a wheel is dispersed iff it is a member  *)
(* of exactly one batch of the history; the batches are pairwise           *)
(* disjoint, a batch lists no wheel twice, and with an empty history no    *)
(* wheel is dispersed.                                                     *)
C28_DispersedIffInOneBatch ==
  /\ \A k \in 1..Len(wheels) :
       /\ wheels[k].isBlownAway <=> Cardinality(BatchesOf(k)) = 1
       /\ Cardinality(BatchesOf(k)) <= 1
  /\ \A a \in 1..Len(blownAwayHistory) :
       /\ BatchSet(blownAwayHistory[a]) \subseteq 1..Len(wheels)
       /\ Cardinality(BatchSet(blownAwayHistory[a])) = Len(blownAwayHistory[a])
       /\ \A b \in 1..Len(blownAwayHistory) :
            a # b => BatchSet(blownAwayHistory[a]) \cap BatchSet(blownAwayHistory[b]) = {}
  /\ blownAwayHistory = <<>> => \A k \in 1..Len(wheels) : ~wheels[k].isBlownAway

(* two batches were pushed and the later one was restored: the history    *)
(* holds the earlier one, whose wheels are dispersed, the others are not   *)
C28_Witness ==
  /\ event.op = "keyPressed" /\ event.restored > 0
  /\ Len(blownAwayHistory) = 1
  /\ \E k \in 1..Len(wheels) : wheels[k].isBlownAway /\ BatchesOf(k) = {1}
  /\ \E k \in 1..Len(wheels) : ~wheels[k].isBlownAway /\ BatchesOf(k) = {}

(* the wheels that have the base colour of wheel k *)
ColourGroup(k) == { m \in 1..Len(wheels) : SameColour(wheels[m], wheels[k]) }

(* C29: in every reachable state wheels of the same base colour have the  *)
(* same isBlownAway value, and every batch of the history is the complete  *)
(* set of the wheels of one base colour.                                   *)
C29_ColourGroupMovesAsAWhole ==
  /\ \A k \in 1..Len(wheels) : \A m \in ColourGroup(k) :
       wheels[m].isBlownAway = wheels[k].isBlownAway
  /\ \A n \in 1..Len(blownAwayHistory) :
       /\ blownAwayHistory[n] # <<>>
       /\ BatchSet(blownAwayHistory[n]) = ColourGroup(blownAwayHistory[n][1])

(* a click dispersed a colour group of two wheels that are not            *)
(* neighbours, and the wheel between them, of another colour, is intact    *)
C29_Witness ==
  /\ event.op = "mousePressed" /\ event.hit > 0
  /\ Len(wheels) = 3
  /\ ColourGroup(1) = {1, 3}
  /\ wheels[1].isBlownAway /\ wheels[3].isBlownAway /\ ~wheels[2].isBlownAway
  /\ blownAwayHistory = << <<1, 3>> >>

(* the base colours of the placed wheels *)
BaseColours == { BaseColor(wheels[k]) : k \in 1..Len(wheels) }

(* the base colours of the wheels of a batch *)
BatchColours(batch) == { BaseColor(wheels[batch[n]]) : n \in 1..Len(batch) }

(* C30: no two batches of the history have a base colour in common, so    *)
(* the history is never deeper than the number of distinct base colours    *)
(* of the placed wheels, which is at most the number of palettes, 6.       *)
C30_OneBatchPerColour ==
  /\ \A a \in 1..Len(blownAwayHistory) : \A b \in 1..Len(blownAwayHistory) :
       a # b => BatchColours(blownAwayHistory[a]) \cap BatchColours(blownAwayHistory[b]) = {}
  /\ Len(blownAwayHistory) <= Cardinality(BaseColours)
  /\ Cardinality(BaseColours) <= 6
  /\ Len(colorPalettes) = 6

(* the history is as deep as it can be: one batch for each of the two     *)
(* base colours of the three wheels                                        *)
C30_Witness ==
  /\ Len(wheels) = 3
  /\ Cardinality(BaseColours) = 2
  /\ Len(blownAwayHistory) = 2
  /\ BatchColours(blownAwayHistory[1]) # BatchColours(blownAwayHistory[2])
  /\ \A k \in 1..Len(wheels) : wheels[k].isBlownAway

====
